---- MODULE Spec2Model ----
(***************************************************************************)
(* Daily Values Journal (values_tracker.py): the SQLite store (users,      *)
(* entries, tags), the auth helpers, add_entry / load, and the dashboard   *)
(* aggregation of page_dash.                                               *)
(*                                                                         *)
(* Nullable SQL columns and Python None are options: <<>> is NULL and      *)
(* <<x>> is the value x.  Time is counted in whole days; the process       *)
(* starts at day 0 and rows that were in the file before have negative     *)
(* timestamps.  Ratings are integers, means are kept in tenths.            *)
(***************************************************************************)
EXTENDS Integers, Sequences, FiniteSets, TLC

None == <<>>
Some(x) == <<x>>

\* ------------------------------ bounds ---------------------------------
MaxId == 2            \* largest entries.id the store hands out
MaxNow == 1           \* last day the clock reaches
MaxDashTags == 2      \* tags in a dashboard scenario

Users == {"demo", "ann"}
Passwords == {"demo", "pw"}
ValueNames == {"Growth", "Health"}           \* two names of VALUE_OPTIONS
NameRank == [Growth |-> 1, Health |-> 2]     \* their lexical order
Texts == {<<"a">>, <<" ">>}                  \* text_area inputs, as characters
\* ratings a caller may pass for each value: the top of the slider and one above it
RatingInputs == [Growth |-> {99}, Health |-> {99, 100}]
StoredRatings == {None, Some(90)}            \* ratings of rows already stored
Ages == {1, 2, 7, 30}                        \* ages (days) of rows already stored
DashIds == {1, 2}                            \* ids of rows already stored
Windows == {"Last 1 day", "Last 7 days", "Last 30 days", "All time"}

\* --------------------------- program constants -------------------------
SliderMin == 0
SliderMax == 99
FillValue == 50

\* ------------------------------ helpers --------------------------------
SetMax(S) == CHOOSE m \in S : \A x \in S : x <= m

SetMin(S) == CHOOSE m \in S : \A x \in S : m <= x

RECURSIVE SumSeq(_)
SumSeq(s) == IF s = <<>> THEN 0 ELSE Head(s) + SumSeq(Tail(s))

RECURSIVE SelectIdx(_, _, _)
\* the subsequence of s at the positions P, in table order
SelectIdx(s, P, i) ==
    IF i > Len(s) THEN <<>>
    ELSE IF i \in P THEN <<s[i]>> \o SelectIdx(s, P, i + 1)
    ELSE SelectIdx(s, P, i + 1)

\* injective sequences over S: a dict's items(), in insertion order
RECURSIVE Arrangements(_)
Arrangements(S) ==
    IF S = {} THEN {<<>>}
    ELSE {<<>>} \cup UNION {{<<x>> \o a : a \in Arrangements(S \ {x})} : x \in S}

\* str.strip(): drop leading and trailing blanks
RECURSIVE LStrip(_)
LStrip(s) == IF s # <<>> /\ Head(s) = " " THEN LStrip(Tail(s)) ELSE s

RECURSIVE RStrip(_)
RStrip(s) == IF s # <<>> /\ s[Len(s)] = " " THEN RStrip(SubSeq(s, 1, Len(s) - 1)) ELSE s

Strip(s) == RStrip(LStrip(s))

\* bcrypt.hashpw / bcrypt.checkpw: a hash is checked only by its password
HashPw(p) == <<"bcrypt", p>>

CheckPw(p, h) == h = HashPw(p)

\* SQL "a = b": true only when both sides are non-NULL and equal
SqlEq(a, b) == a # None /\ b # None /\ a = b

VARIABLES
    schema,   \* "none": empty file, "legacy": tables without entries.username, "current"
    users,    \* rows of the users table (username is the primary key)
    entries,  \* rows of the entries table (id is the primary key)
    tags,     \* rows of the tags table, in rowid order
    seq,      \* sqlite_sequence of entries (AUTOINCREMENT)
    openTxn,  \* a connection with an uncommitted INSERT is still open and holds the write lock
    now,      \* datetime.utcnow(), in days
    issued,   \* history: the ids add_entry has obtained from lastrowid
    reused,   \* history: add_entry obtained an id it had obtained before
    creator,  \* history: the user whose add_entry committed the row of each id
    last      \* the last call and what it returned or rendered

vars == <<schema, users, entries, tags, seq, openTxn, now, issued, reused, creator, last>>

store == <<schema, users, entries, tags, seq>>

NoCall == [op |-> "none", user |-> "", out |-> "", e |-> {}, t |-> <<>>, win |-> "",
           at |-> 0, recent |-> {}, tag |-> <<>>, filled |-> <<>>, rows |-> <<>>]

Ids == 1 .. MaxId

EntryIds(E) == {e.id : e \in E}

UserExists(u) == \E r \in users : r.username = u

\* ------------------------------ the store ------------------------------
\* rows a file written by an earlier revision may hold
OldEntry(u) == [id |-> 1, ts |-> Some(0 - 1), text |-> <<"a">>, username |-> u]

OldTag(i) == [entry_id |-> i, value |-> Some("Health"), rating |-> None]

OldTagSeqs == {<<>>} \cup {<<OldTag(i)>> : i \in 1 .. 2}

UserRow(u, p) == [username |-> u, pwd_hash |-> HashPw(p)]

Fresh(E, T) ==
    /\ entries = E
    /\ tags = T
    /\ seq = IF E = {} THEN 0 ELSE SetMax(EntryIds(E))
    /\ openTxn = FALSE
    /\ now = 0
    /\ issued = {}
    /\ reused = FALSE
    /\ creator = [i \in Ids |-> None]
    /\ last = NoCall

Init ==
    \/ /\ schema = "none"
       /\ users = {}
       /\ Fresh({}, <<>>)
    \/ /\ schema = "legacy"
       /\ users = {}
       /\ \E E \in {{}, {OldEntry(None)}}, T \in OldTagSeqs : Fresh(E, T)
    \/ /\ schema = "current"
       /\ users = {UserRow("demo", "demo"), UserRow("ann", "pw")}
       /\ \E E \in {{}} \cup {{OldEntry(u)} : u \in {None, Some("demo")}},
             T \in OldTagSeqs : Fresh(E, T)

\* ensure_schema: create the tables, add entries.username (NULL in the rows
\* already there), insert the demo user when the users table is empty
EnsureSchema ==
    /\ schema' = "current"
    /\ users' = IF users = {} THEN {UserRow("demo", "demo")} ELSE users
    /\ last' = [NoCall EXCEPT !.op = "ensure_schema", !.out = "ok"]
    /\ UNCHANGED <<entries, tags, seq, openTxn, now, issued, reused, creator>>

\* verify(u, p)
VerifyResult(u, p) == \E r \in users : r.username = u /\ CheckPw(p, r.pwd_hash)

Verify(u, p) ==
    /\ schema = "current"
    /\ last' = [NoCall EXCEPT !.op = "verify",
                              !.out = IF VerifyResult(u, p) THEN "True" ELSE "False"]
    /\ UNCHANGED <<store, openTxn, now, issued, reused, creator>>

\* register(u, p): the INSERT runs on one connection, commit() on another.
\* The first connection is never committed: its INSERT is rolled back when the
\* connection is collected, and until then it holds the write lock.
RegisterOut(u) ==
    IF openTxn THEN "OperationalError"
    ELSE IF UserExists(u) THEN "False"
    ELSE "True"

Register(u, p) ==
    /\ schema = "current"
    /\ last' = [NoCall EXCEPT !.op = "register", !.out = RegisterOut(u)]
    /\ openTxn' = TRUE
    /\ UNCHANGED <<store, now, issued, reused, creator>>

\* the garbage collector closes a leaked connection: its transaction is rolled back
Collect ==
    /\ openTxn
    /\ openTxn' = FALSE
    /\ UNCHANGED <<store, now, issued, reused, creator, last>>

Tick ==
    /\ now < MaxNow
    /\ now' = now + 1
    /\ UNCHANGED <<store, openTxn, issued, reused, creator, last>>

\* AUTOINCREMENT: one more than the largest id ever committed
NextId == (IF entries = {} THEN seq
           ELSE IF SetMax(EntryIds(entries)) > seq THEN SetMax(EntryIds(entries)) ELSE seq) + 1

TagRow(eid, pair) == [entry_id |-> eid, value |-> Some(pair.value), rating |-> Some(pair.rating)]

\* add_entry(user, text, ratings): commit() and close() are inside the for
\* loop.  No rating: nothing is committed.  Two or more: the second INSERT
\* runs on the closed connection and raises.
AddEntryRun(user, text, ratings) ==
    IF openTxn
    THEN [ent |-> entries, tg |-> tags, sq |-> seq, open |-> TRUE, eid |-> 0,
          out |-> "OperationalError"]
    ELSE LET eid == NextId
             row == [id |-> eid, ts |-> Some(now), text |-> text, username |-> Some(user)]
         IN  IF Len(ratings) = 0
             THEN [ent |-> entries, tg |-> tags, sq |-> seq, open |-> TRUE, eid |-> eid,
                   out |-> "ok"]
             ELSE [ent |-> entries \cup {row}, tg |-> Append(tags, TagRow(eid, ratings[1])),
                   sq |-> eid, open |-> FALSE, eid |-> eid,
                   out |-> IF Len(ratings) = 1 THEN "ok" ELSE "ProgrammingError"]

Committed(r) == r.ent # entries

AddEntryApply(op, user, text, ratings, r) ==
    /\ r.eid <= MaxId
    /\ entries' = r.ent
    /\ tags' = r.tg
    /\ seq' = r.sq
    /\ openTxn' = r.open
    /\ issued' = IF r.eid = 0 THEN issued ELSE issued \cup {r.eid}
    /\ reused' = (reused \/ r.eid \in issued)
    /\ creator' = IF Committed(r) THEN [creator EXCEPT ![r.eid] = Some(user)] ELSE creator
    /\ last' = [NoCall EXCEPT !.op = op,
                              !.out = IF op = "page_add" /\ r.out = "ok" THEN "Saved" ELSE r.out]
    /\ UNCHANGED <<schema, users, now>>

RatingMaps(R) ==
    {[i \in DOMAIN a |-> [value |-> a[i], rating |-> f[a[i]]]] :
        a \in Arrangements(ValueNames),
        f \in {g \in [ValueNames -> UNION {R[v] : v \in ValueNames}] :
                  \A v \in ValueNames : g[v] \in R[v]}}

\* the rating dicts a call is made with
RatingDicts == RatingMaps(RatingInputs)

AddEntry(user, text, ratings) ==
    /\ schema = "current"
    /\ AddEntryApply("add_entry", user, text, ratings, AddEntryRun(user, text, ratings))

\* page_add(user): sliders give 0..99; Save does nothing for a blank text
PageAdd(user, txt, ratings) ==
    /\ schema = "current"
    /\ UserExists(user)
    /\ \A i \in DOMAIN ratings : ratings[i].rating \in SliderMin .. SliderMax
    /\ IF Strip(txt) = <<>>
       THEN /\ last' = [NoCall EXCEPT !.op = "page_add", !.out = "ignored"]
            /\ UNCHANGED <<store, openTxn, now, issued, reused, creator>>
       ELSE AddEntryApply("page_add", user, txt, ratings, AddEntryRun(user, txt, ratings))

\* load(user)
\* (variant: the owner filter also lets rows without an owner through)
LoadEntriesOrNull(user) == {e \in entries : e.username = user \/ e.username = None}

LoadEntries(user) == {e \in entries : SqlEq(e.username, user)}

LoadTags(user) ==
    SelectIdx(tags, {i \in DOMAIN tags : tags[i].entry_id \in EntryIds(LoadEntries(user))}, 1)

Load(user) == [e |-> LoadEntries(user), t |-> LoadTags(user)]

LoadCall(u) ==
    /\ schema = "current"
    /\ last' = [NoCall EXCEPT !.op = "load", !.user = u, !.out = "ok",
                              !.e = Load(Some(u)).e, !.t = Load(Some(u)).t]
    /\ UNCHANGED <<store, openTxn, now, issued, reused, creator>>

\* ---------------------------- the dashboard -----------------------------
Stamps(E) == {e.ts[1] : e \in {x \in E : x.ts # None}}

\* e["ts"].min(): NULL timestamps are skipped, NaT when there is none
TsMin(E) == IF Stamps(E) = {} THEN None ELSE Some(SetMin(Stamps(E)))

\* the dict lookup of page_dash: the lower bound of the window
Start(win, at, E) ==
    CASE win = "Last 1 day" -> Some(at - 1)
      [] win = "Last 7 days" -> Some(at - 7)
      [] win = "Last 30 days" -> Some(at - 30)
      [] win = "All time" -> TsMin(E)

\* (variant: the lower bound is exclusive)
RecentStrict(E, start) == {e \in E : e.ts # None /\ start # None /\ e.ts[1] > start[1]}

\* e[e["ts"] >= pd.Timestamp(start)]: a comparison with NaT is false
Recent(E, start) == {e \in E : e.ts # None /\ start # None /\ e.ts[1] >= start[1]}

\* t[t["entry_id"].isin(recent["id"])]
TagSel(T, R) == SelectIdx(T, {i \in DOMAIN T : T[i].entry_id \in EntryIds(R)}, 1)

\* (variant: a missing rating is filled with 0)
FillNaZero(T) ==
    [i \in DOMAIN T |-> IF T[i].rating = None THEN [T[i] EXCEPT !.rating = Some(0)] ELSE T[i]]

\* tag["rating"].fillna(50, inplace=True)
FillNa(T) ==
    [i \in DOMAIN T |-> IF T[i].rating = None THEN [T[i] EXCEPT !.rating = Some(FillValue)]
                                              ELSE T[i]]

\* round(1), in tenths: the nearest tenth of total / n, a half goes to the even tenth
Mean10(total, n) ==
    LET q == (10 * total) \div n
        r == (10 * total) % n
    IN  IF 2 * r < n THEN q
        ELSE IF 2 * r > n THEN q + 1
        ELSE IF q % 2 = 0 THEN q ELSE q + 1

GroupKeys(T) == {v \in ValueNames : \E i \in DOMAIN T : T[i].value = Some(v)}

GroupRatings(T, v) ==
    LET g == SelectIdx(T, {i \in DOMAIN T : T[i].value = Some(v)}, 1)
    IN  [i \in DOMAIN g |-> g[i].rating[1]]

\* groupby("value")["rating"].mean().round(1)
Agg(T) == [v \in GroupKeys(T) |-> Mean10(SumSeq(GroupRatings(T, v)), Len(GroupRatings(T, v)))]

\* (variant: the sort is ascending)
SortedRowsAscending(agg) ==
    {[i \in DOMAIN a |-> [value |-> a[i], avg |-> agg[a[i]]]] :
        a \in {b \in Arrangements(DOMAIN agg) :
                  /\ Len(b) = Cardinality(DOMAIN agg)
                  /\ \A i, j \in DOMAIN b : i < j => agg[b[i]] <= agg[b[j]]}}

\* sort_values(ascending=False): the default sort is not stable, groups with
\* equal means come out in any order
SortedRows(agg) ==
    {[i \in DOMAIN a |-> [value |-> a[i], avg |-> agg[a[i]]]] :
        a \in {b \in Arrangements(DOMAIN agg) :
                  /\ Len(b) = Cardinality(DOMAIN agg)
                  /\ \A i, j \in DOMAIN b : i < j => agg[b[i]] >= agg[b[j]]}}

\* (variant: the two early returns are taken in the other order)
DashOutcomeTagsFirst(E, tag) ==
    IF tag = <<>> THEN "No tags in window"
    ELSE IF E = {} THEN "No entries yet"
    ELSE "chart"

\* the two early returns of page_dash
DashOutcome(E, tag) ==
    IF E = {} THEN "No entries yet"
    ELSE IF tag = <<>> THEN "No tags in window"
    ELSE "chart"

PageDash(user, win) ==
    /\ schema = "current"
    /\ UserExists(user)
    /\ LET l == Load(Some(user))
           recent == Recent(l.e, Start(win, now, l.e))
           tag == TagSel(l.t, recent)
           out == DashOutcome(l.e, tag)
           call == [NoCall EXCEPT !.op = "page_dash", !.user = user, !.win = win, !.at = now,
                                  !.e = l.e, !.t = l.t, !.out = out]
       IN  IF out = "No entries yet" THEN last' = call
           ELSE IF out = "No tags in window" THEN last' = [call EXCEPT !.recent = recent]
           ELSE \E rows \in SortedRows(Agg(FillNa(tag))) :
                    last' = [call EXCEPT !.recent = recent, !.tag = tag,
                                         !.filled = FillNa(tag), !.rows = rows]
    /\ UNCHANGED <<store, openTxn, now, issued, reused, creator>>

\* a store that earlier runs have filled, for the dashboard
DashStamps == {Some(0 - a) : a \in Ages}

DashEntry(i, ts) == [id |-> i, ts |-> ts, text |-> <<"a">>, username |-> Some("demo")]

\* ids are dense (AUTOINCREMENT, no row is ever deleted) and the clock does
\* not run backwards between two inserts
DashEntrySets ==
    {{DashEntry(i, f[i]) : i \in {j \in DashIds : j <= n}} :
        n \in 0 .. Cardinality(DashIds),
        f \in {g \in [DashIds -> DashStamps] :
                  \A i, j \in DashIds : i < j => g[i][1] <= g[j][1]}}

DashTagRows ==
    [entry_id : DashIds, value : {Some(v) : v \in ValueNames}, rating : StoredRatings]

TagKey(r) ==
    100 * r.entry_id + 10 * NameRank[r.value[1]]
        + (IF r.rating = None THEN 0 ELSE IF r.rating[1] < FillValue THEN 1 ELSE 2)

DashTagSeqs ==
    UNION {{s \in [1 .. n -> DashTagRows] :
               \A i, j \in 1 .. n : i < j => TagKey(s[i]) <= TagKey(s[j])} :
           n \in 0 .. MaxDashTags}

DashInit ==
    /\ schema = "current"
    /\ users = {UserRow("demo", "demo")}
    /\ \E E \in DashEntrySets, T \in DashTagSeqs : Fresh(E, T)

DashNext ==
    \/ \E u \in Users, w \in Windows : PageDash(u, w)
    \/ Tick

DashSpec == DashInit /\ [][DashNext]_vars

Next ==
    \/ EnsureSchema
    \/ \E u \in Users, p \in Passwords : Verify(u, p)
    \/ \E u \in Users, p \in Passwords : Register(u, p)
    \/ Collect
    \/ \E u \in Users, r \in RatingDicts : AddEntry(u, <<"a">>, r)
    \/ \E u \in Users, x \in Texts, r \in RatingDicts : PageAdd(u, x, r)
    \/ \E u \in Users : LoadCall(u)

Spec == Init /\ [][Next]_vars

\* ------------------------------- claims --------------------------------
Callers == {None} \cup {Some(u) : u \in Users}

OwnedBy(A, E, T) ==
    /\ \A e \in E : e.username = A /\ e.username # None /\ creator[e.id] \in {None, A}
    /\ \A i \in DOMAIN T : /\ \E e \in E : e.id = T[i].entry_id
                           /\ creator[T[i].entry_id] \in {None, A}

\* C1: whatever rows the file held and whatever add_entry calls were made,
\* every Entry load(A) returns is owned by A, every Tag it returns references
\* one of the returned entries, nothing that add_entry(B, ...) committed for
\* B # A is returned, and a row without an owner is returned to nobody.
Isolation ==
    /\ \A A \in Callers : OwnedBy(A, Load(A).e, Load(A).t)
    /\ \A e \in entries : e.username = None => \A A \in Callers : e \notin Load(A).e
    /\ last.op = "load" => OwnedBy(Some(last.user), last.e, last.t)

\* load has returned rows to one user while the store holds a tagged entry
\* committed by another user and a tagged entry that is not that user's
IsolationWitness ==
    /\ last.op = "load"
    /\ last.e # {}
    /\ last.t # <<>>
    /\ \E e \in entries : /\ e.username # Some(last.user)
                          /\ \E i \in DOMAIN tags : tags[i].entry_id = e.id
    /\ \E i \in Ids : creator[i] # None /\ creator[i] # Some(last.user)

Calls == Users \X RatingDicts

InRange(r) == \A i \in DOMAIN r : r[i].rating >= 0 /\ r[i].rating <= 99

\* C2: a call of add_entry that reaches the store adds exactly one Entry row
\* and exactly one Tag row per (value, rating) pair, all carrying the id of
\* that Entry, so that load(owner) shows one more Entry and all its Tags.
AddEntryPersistsAll ==
    [][\A c \in Calls :
          (AddEntry(c[1], <<"a">>, c[2]) /\ ~openTxn) =>
              /\ Cardinality(entries') = Cardinality(entries) + 1
              /\ \E e \in entries' \ entries : e.id = NextId /\ e.username = Some(c[1])
              /\ Len(tags') = Len(tags) + Len(c[2])
              /\ \A i \in DOMAIN c[2] :
                     Len(tags) + i \in DOMAIN tags'
                         /\ tags'[Len(tags) + i] = TagRow(NextId, c[2][i])]_vars

Shown(u, eid, x, r, E, T) ==
    /\ \E e \in E : e.id = eid /\ e.text = x /\ e.username = Some(u)
    /\ \A i \in DOMAIN r : \E j \in DOMAIN T : T[j] = TagRow(eid, r[i])

\* C3: whenever add_entry returns normally (page_add then reports "Saved"),
\* for every ratings mapping including the empty one, the next load(owner)
\* contains the new Entry and all of its Tags.
ReadYourWrites ==
    [][\A c \in Calls, x \in Texts :
          ((AddEntry(c[1], x, c[2]) \/ PageAdd(c[1], x, c[2]))
               /\ last'.out \in {"ok", "Saved"}) =>
              Shown(c[1], NextId, x, c[2], LoadEntries(Some(c[1]))', LoadTags(Some(c[1]))')]_vars

\* C4: add_entry rejects a call with a rating outside [0, 99] and leaves the
\* entries and tags tables as they were; a call whose ratings are all within
\* [0, 99] stores exactly the given integer for each tag.
RatingBounds ==
    [][\A c \in Calls :
          AddEntry(c[1], <<"a">>, c[2]) =>
              /\ ~InRange(c[2]) => (entries' = entries /\ tags' = tags /\ last'.out # "ok")
              /\ (InRange(c[2]) /\ ~openTxn) =>
                     \A i \in DOMAIN c[2] : \E j \in DOMAIN tags' : tags'[j] = TagRow(NextId, c[2][i])]_vars

\* C5: register(u, p) returns false and changes nothing when u already
\* exists, and after a register(u, p) that returned true the user u exists:
\* verify(u, p) is true (and, u existing, a later register(u, p2) is false).
RegisterCreates ==
    [][\A u \in Users, p \in Passwords :
          Register(u, p) =>
              /\ UserExists(u) => (last'.out = "False" /\ users' = users)
              /\ last'.out = "True" => (UserExists(u)' /\ VerifyResult(u, p)')]_vars

\* the claim's reading of the window: the entry's timestamp is at or after
\* now - 1, now - 7, now - 30 days, or the earliest timestamp of the entries
AtOrAfterBound(win, at, ts, E) ==
    \/ win = "Last 1 day" /\ ts >= at - 1
    \/ win = "Last 7 days" /\ ts >= at - 7
    \/ win = "Last 30 days" /\ ts >= at - 30
    \/ win = "All time" /\ \E m \in Stamps(E) : (\A x \in Stamps(E) : m <= x) /\ ts >= m

Contributes(e) == e.ts # None /\ AtOrAfterBound(last.win, last.at, e.ts[1], last.e)

Charted == last.op = "page_dash" /\ last.out = "chart"

RowValues == {last.rows[i].value : i \in DOMAIN last.rows}

\* C6: in the dashboard an entry contributes iff its timestamp >= the lower
\* bound of the window (inclusive, no upper bound), and exactly the tags whose
\* entry_id is one of those entries are aggregated.
WindowInclusivity ==
    (last.op = "page_dash" /\ last.e # {}) =>
        /\ \A e \in last.e : e \in last.recent <=> Contributes(e)
        /\ last.recent \subseteq last.e
        /\ Charted =>
              /\ last.tag = SelectIdx(last.t, {i \in DOMAIN last.t :
                                \E e \in last.e : Contributes(e) /\ e.id = last.t[i].entry_id}, 1)
              /\ RowValues = {last.tag[i].value[1] : i \in DOMAIN last.tag}

\* Last 1 day: an entry exactly one day old is in, an entry one day older is
\* out, and the chart shows only the rating of the first
WindowWitness ==
    /\ Charted
    /\ last.win = "Last 1 day"
    /\ \E e1, e2 \in last.e :
          /\ e1.ts = Some(last.at - 1)
          /\ e2.ts = Some(last.at - 2)
          /\ last.recent = {e1}
          /\ \E i \in DOMAIN last.t : last.t[i].entry_id = e2.id
    /\ Len(last.tag) = 1
    /\ last.tag[1].rating = Some(90)
    /\ last.rows = <<[value |-> last.tag[1].value[1], avg |-> 900]>>

RatingOr50(r) == IF r = None THEN 50 ELSE r[1]

TagsOf(v) == SelectIdx(last.tag, {i \in DOMAIN last.tag : last.tag[i].value = Some(v)}, 1)

TotalOf(v) == SumSeq([i \in DOMAIN TagsOf(v) |-> RatingOr50(TagsOf(v)[i].rating)])

\* m tenths is total / n rounded to one decimal place
NearestTenth(m, total, n) ==
    /\ 2 * (10 * total - m * n) <= n
    /\ 2 * (m * n - 10 * total) <= n

UserHasEntries == \E e \in entries : e.username = Some(last.user)

TagInWindow ==
    \E i \in DOMAIN tags : \E e \in entries :
        /\ e.username = Some(last.user)
        /\ e.id = tags[i].entry_id
        /\ e.ts # None
        /\ AtOrAfterBound(last.win, last.at, e.ts[1], {x \in entries : x.username = Some(last.user)})

\* C9: the dashboard says "No entries yet" exactly when the user has no
\* entries, "No tags in window" when the user has entries but no tag of an
\* in-window entry, and charts a ranked list otherwise; the three outcomes
\* exclude each other and only the chart has rows.
EmptyStates ==
    last.op = "page_dash" =>
        /\ last.out \in {"No entries yet", "No tags in window", "chart"}
        /\ last.out = "No entries yet" <=> ~UserHasEntries
        /\ last.out = "No tags in window" <=> (UserHasEntries /\ ~TagInWindow)
        /\ last.out = "chart" <=> (UserHasEntries /\ TagInWindow)
        /\ last.out = "chart" <=> last.rows # <<>>

\* the user has an entry in the window and has tags, but every tagged entry
\* is older than the window
EmptyStatesWitness ==
    /\ last.op = "page_dash"
    /\ last.out = "No tags in window"
    /\ last.e # {}
    /\ last.t # <<>>
    /\ last.recent # {}

\* C10: a stored Entry or Tag stays stored unchanged, and an id that add_entry
\* has obtained for one entry is never obtained again by a later add_entry.
EntriesImmutable ==
    [][/\ entries \subseteq entries'
       /\ \A i \in DOMAIN tags : i \in DOMAIN tags' /\ tags'[i] = tags[i]
       /\ ~reused']_vars

====
